---- MODULE Spec2Model ----
(***************************************************************************)
(* Model of the agent/thread lifecycle orchestrator UniversalRAGAgent      *)
(* (rag_agent.py) and of its Chainlit handlers (main.py).                  *)
(*                                                                         *)
(* Every handler is one atomic action: the provider SDK calls are          *)
(* synchronous, so a handler runs from its first to its last line without  *)
(* yielding to the event loop.  The outcome of every provider call made    *)
(* during a handler (success or exception, the run's terminal status, the  *)
(* messages the run writes) is an input of the action, drawn with \E.      *)
(*                                                                         *)
(* Strings are sequences of fragments: "" is << >>, a literal is a         *)
(* one-fragment sequence, an f-string is the concatenation of its parts.   *)
(***************************************************************************)
EXTENDS Integers, Sequences, FiniteSets, TLC

\* Number of top-level calls (handler invocations) explored.
MaxCalls == 3

\* Python's None for ids (agent ids and thread ids are 1, 2, ...).
None == 0

\* Python's None for a model name / a failed name resolution.
NoName == "None"

\* settings.model_deployment_name
model_deployment_name == "dep-default"

\* The provider's deployment catalog, in iteration order.  Two deployments
\* share the model name "gpt-b".
Deployments ==
  << [name |-> "dep-a",  modelPublisher |-> "OpenAI", modelName |-> "gpt-a", modelVersion |-> "1"],
     [name |-> "dep-b",  modelPublisher |-> "OpenAI", modelName |-> "gpt-b", modelVersion |-> "1"],
     [name |-> "dep-b2", modelPublisher |-> "OpenAI", modelName |-> "gpt-b", modelVersion |-> "2"] >>

\* Model names a caller passes to initialize ("gpt-x" is in no deployment).
ModelNames == {NoName, "gpt-b", "gpt-x"}

\* Message texts a user sends.
UserTexts == { <<"Bonjour !">>, <<"Linkin Park">> }

\* Chainlit sessions.
Sessions == {1, 2}

\* run.status values the provider can report once create_and_process returns.
RunStatuses == {"completed", "failed", "cancelled", "expired"}

\* run.last_error values of a failed run.
LastErrors == { <<"rate_limit_exceeded">>, <<"server_error">> }

\* A URL-citation annotation of a message.
Annotation(title, url) == [url_citation |-> [title |-> title, url |-> url]]

\* What a run can write to its thread: nothing, or one assistant message,
\* given by its text segments and its URL-citation annotations.
RunWrites ==
  { << >>,
    << [text_messages |-> << <<"A">> >>, url_citation_annotations |-> << >>] >>,
    << [text_messages |-> << <<"B">>, <<"C">> >>,
        url_citation_annotations |-> << Annotation("t", "u") >>] >>,
    << [text_messages |-> << >>,
        url_citation_annotations |->
          << Annotation("v", "w"), Annotation("t", "u"), Annotation("v", "w") >>] >> }

\* The outcomes of the provider calls of one handler invocation: which calls
\* raise, and what the run reports and writes.  AllOk is the invocation in
\* which no call raises and the run completes with one plain reply.
AllOk ==
  [ catalogOk  |-> TRUE,      \* project_client.deployments.list()
    deleteOk   |-> TRUE,      \* agents_client.delete_agent
    createOk   |-> TRUE,      \* agents_client.create_agent
    threadOk   |-> TRUE,      \* agents_client.threads.get / threads.create
    messageOk  |-> TRUE,      \* agents_client.messages.create
    runOk      |-> TRUE,      \* agents_client.runs.create_and_process
    listOk     |-> TRUE,      \* agents_client.messages.list
    closeOk    |-> TRUE,      \* project_client.close()
    status     |-> "completed",
    last_error |-> << >>,
    writes     |-> << [text_messages |-> << <<"A">> >>, url_citation_annotations |-> << >>] >> ]

VARIABLES
  agent_id,        \* self.agent_id
  initialized,     \* self._initialized
  selected_model,  \* self._selected_model
  agents,          \* provider: agents ever created, agent id = index
  threads,         \* provider: threads, thread id = index, messages oldest first
  session,         \* cl.user_session "thread_id" of each started session
  started,         \* sessions whose on_chat_start has run
  log,             \* provider requests issued by the last call, in order
  ret,             \* the last call: operation, arguments, outcome, value
  pre,             \* orchestrator and provider state when the last call began
  calls            \* number of calls made

vars == <<agent_id, initialized, selected_model, agents, threads, session,
          started, log, ret, pre, calls>>

\* The state a method reads and writes, as one record threaded through the
\* methods it calls.  raised: an exception is propagating.
World ==
  [ agent_id |-> agent_id, initialized |-> initialized,
    selected_model |-> selected_model, agents |-> agents, threads |-> threads,
    log |-> << >>, span |-> << >>, raised |-> FALSE, value |-> None ]

\* A provider request as the log keeps it: the call, its argument, and whether
\* it returned (ok) or raised.
Request(name, arg, ok) == [call |-> name, arg |-> arg, ok |-> ok]

\* runs.create_and_process, with the run it returned.
RunRequest(thread_id, agent, o) ==
  [call |-> "runs.create_and_process", arg |-> <<thread_id, agent>>, ok |-> o.runOk,
   status |-> IF o.runOk THEN o.status ELSE "", 
   last_error |-> IF o.runOk /\ o.status = "failed" THEN o.last_error ELSE << >>]

\* UniversalRAGAgent._delete_agent
delete_agent(w, o) ==
  IF w.agent_id = None
  THEN w
  ELSE LET w1 == [w EXCEPT !.log = Append(@, Request("delete_agent", w.agent_id, o.deleteOk)),
                           !.agents[w.agent_id].deletes = @ + 1]
       IN IF o.deleteOk
          THEN [w1 EXCEPT !.agents[w.agent_id].live = FALSE]
          ELSE w1

\* UniversalRAGAgent._get_model_by_name: the deployment name of the first
\* deployment whose modelName is model_name, else None.
FirstMatch(model_name) ==
  LET hits == {i \in DOMAIN Deployments : Deployments[i].modelName = model_name}
  IN IF hits = {} THEN NoName
     ELSE Deployments[CHOOSE i \in hits : \A j \in hits : i <= j].name

get_model_by_name(model_name, o) ==
  IF model_name = NoName THEN NoName
  ELSE IF o.catalogOk THEN FirstMatch(model_name) ELSE NoName

\* The provider requests _get_model_by_name issues.
get_model_by_name_log(model_name, o) ==
  IF model_name = NoName THEN << >>
  ELSE << Request("deployments.list", None, o.catalogOk) >>

\* _create_agent in which a failed delete of the old agent aborts the creation.
create_agent_stops_on_delete_failure(w, o) ==
  LET w1 == delete_agent(w, o)
      w2 == [w1 EXCEPT !.log = Append(@, Request("create_agent", w1.selected_model, o.createOk))]
  IN IF w.agent_id # None /\ ~o.deleteOk
     THEN [w1 EXCEPT !.raised = TRUE]
     ELSE IF o.createOk
          THEN [w2 EXCEPT !.agents = Append(@, [model |-> w1.selected_model,
                                               live |-> TRUE, deletes |-> 0]),
                          !.agent_id = Len(w1.agents) + 1]
          ELSE [w2 EXCEPT !.raised = TRUE]

\* _create_agent without the clean-up of the existing agent.
create_agent_keeps_old(w, o) ==
  LET w2 == [w EXCEPT !.log = Append(@, Request("create_agent", w.selected_model, o.createOk))]
  IN IF o.createOk
     THEN [w2 EXCEPT !.agents = Append(@, [model |-> w.selected_model,
                                          live |-> TRUE, deletes |-> 0]),
                     !.agent_id = Len(w.agents) + 1]
     ELSE [w2 EXCEPT !.raised = TRUE]

\* UniversalRAGAgent._create_agent
create_agent(w, o) ==
  LET w1 == delete_agent(w, o)
      w2 == [w1 EXCEPT !.log = Append(@, Request("create_agent", w1.selected_model, o.createOk))]
  IN IF o.createOk
     THEN [w2 EXCEPT !.agents = Append(@, [model |-> w1.selected_model,
                                          live |-> TRUE, deletes |-> 0]),
                     !.agent_id = Len(w1.agents) + 1]
     ELSE [w2 EXCEPT !.raised = TRUE]

\* UniversalRAGAgent.initialize
initialize(w, model_name, o) ==
  LET r  == get_model_by_name(model_name, o)
      w1 == [w EXCEPT !.selected_model = IF r # NoName THEN r ELSE model_deployment_name,
                      !.log = @ \o get_model_by_name_log(model_name, o)]
      w2 == create_agent(w1, o)
  IN IF w2.raised THEN w2 ELSE [w2 EXCEPT !.initialized = TRUE]

\* ---- provider: threads and messages -------------------------------------

\* agents_client.messages.list(thread_id): the thread's messages, newest first.
RECURSIVE Reverse(_)
Reverse(s) == IF s = << >> THEN << >> ELSE Append(Reverse(Tail(s)), Head(s))

messages_list(w, thread_id) == Reverse(w.threads[thread_id])

\* A message as the provider stores it in a thread of n messages.
Stored(role, m, n) ==
  [role |-> role, text_messages |-> m.text_messages,
   url_citation_annotations |-> m.url_citation_annotations, created_at |-> n + 1]

\* The provider appends the messages ms, of one role, to a thread.
RECURSIVE WriteAll(_, _, _)
WriteAll(thread, role, ms) ==
  IF ms = << >> THEN thread
  ELSE WriteAll(Append(thread, Stored(role, Head(ms), Len(thread))), role, Tail(ms))

\* ---- Response Extractor ---------------------------------------------------

\* The text scan going on to older assistant messages until one has a text
\* segment (the outer break taken only once a text was found).
RECURSIVE response_content_skips_empty(_)
response_content_skips_empty(messages) ==
  IF messages = << >> THEN << >>
  ELSE IF Head(messages).role = "assistant" /\ Head(messages).text_messages # << >>
       THEN Head(Head(messages).text_messages)
       ELSE response_content_skips_empty(Tail(messages))

\* chat, "Find the latest assistant message": the first text segment of the
\* first assistant message of the list, "" if it has none or there is none.
RECURSIVE response_content(_)
response_content(messages) ==
  IF messages = << >> THEN << >>
  ELSE IF Head(messages).role = "assistant"
       THEN IF Head(messages).text_messages # << >>
            THEN Head(Head(messages).text_messages)
            ELSE << >>
       ELSE response_content(Tail(messages))

\* The {title, url} entries of one message's annotations.
RECURSIVE entries(_)
entries(annotations) ==
  IF annotations = << >> THEN << >>
  ELSE << [title |-> Head(annotations).url_citation.title,
           url   |-> Head(annotations).url_citation.url] >> \o entries(Tail(annotations))

\* The citation scan stopping at the first assistant message, as the text
\* scan does.
RECURSIVE collect_citations_first_only(_)
collect_citations_first_only(messages) ==
  IF messages = << >> THEN << >>
  ELSE IF Head(messages).role = "assistant"
       THEN entries(Head(messages).url_citation_annotations)
       ELSE collect_citations_first_only(Tail(messages))

\* chat, "Collect citations if available".
RECURSIVE collect_citations(_)
collect_citations(messages) ==
  IF messages = << >> THEN << >>
  ELSE (IF Head(messages).role = "assistant"
        THEN entries(Head(messages).url_citation_annotations)
        ELSE << >>) \o collect_citations(Tail(messages))

\* ---- UniversalRAGAgent.chat ----------------------------------------------

ApologyRunFailed == << "I encountered an error processing your request. Please try again." >>
ApologyException == << "I encountered an error processing your request. Please try again later." >>

\* The except branch of chat returning no thread id.
chat_except_drops_thread(w, thread_id) ==
  [w EXCEPT !.span = @ \o << <<"error", <<"Error in chat processing: ">> >> >>,
            !.value = [thread_id |-> None,
                       response  |-> ApologyException,
                       status    |-> "error"]]

\* The except branch of chat: the degraded result, with the thread_id variable
\* as it stands when the exception is caught.
chat_except(w, thread_id) ==
  [w EXCEPT !.span = @ \o << <<"error", <<"Error in chat processing: ">> >> >>,
            !.value = [thread_id |-> thread_id,
                       response  |-> ApologyException,
                       status    |-> "error"]]

\* The run.status == "failed" branch of chat, returning error_msg to the user.
chat_run_failed_leaks(w, thread_id, o) ==
  [w EXCEPT !.span = @ \o << <<"error", <<"Agent run failed: ">> \o o.last_error>> >>,
            !.value = [thread_id |-> thread_id,
                       response  |-> <<"Agent run failed: ">> \o o.last_error,
                       status    |-> "error"]]

\* The run.status == "failed" branch of chat.
chat_run_failed(w, thread_id, o) ==
  [w EXCEPT !.span = @ \o << <<"error", <<"Agent run failed: ">> \o o.last_error>> >>,
            !.value = [thread_id |-> thread_id,
                       response  |-> ApologyRunFailed,
                       status    |-> "error"]]

\* chat from "Get agent response" to the success return.
chat_extract(w, thread_id, o) ==
  LET w1 == [w EXCEPT !.log = Append(@, Request("messages.list", thread_id, o.listOk))]
  IN IF ~o.listOk THEN chat_except(w1, thread_id)
     ELSE LET messages == messages_list(w1, thread_id)
          IN [w1 EXCEPT !.value = [thread_id |-> thread_id,
                                   response  |-> response_content(messages),
                                   citations |-> collect_citations(messages),
                                   status    |-> "success"]]

\* chat starting a second run when the first one ends failed.
chat_run_retries_failed(w, thread_id, o) ==
  LET w1 == [w EXCEPT !.log = Append(@, RunRequest(thread_id, w.agent_id, o))]
  IN IF ~o.runOk THEN chat_except(w1, thread_id)
     ELSE LET w2 == [w1 EXCEPT !.threads[thread_id] = WriteAll(@, "assistant", o.writes),
                               !.span = @ \o << <<"run_status", o.status>> >>]
          IN IF o.status = "failed"
             THEN chat_run_failed(
                    [w2 EXCEPT !.log = Append(@, RunRequest(thread_id, w.agent_id, o))],
                    thread_id, o)
             ELSE chat_extract(w2, thread_id, o)

\* chat treating every terminal status other than completed as a failure.
chat_run_only_completed_succeeds(w, thread_id, o) ==
  LET w1 == [w EXCEPT !.log = Append(@, RunRequest(thread_id, w.agent_id, o))]
  IN IF ~o.runOk THEN chat_except(w1, thread_id)
     ELSE LET w2 == [w1 EXCEPT !.threads[thread_id] = WriteAll(@, "assistant", o.writes),
                               !.span = @ \o << <<"run_status", o.status>> >>]
          IN IF o.status # "completed"
             THEN chat_run_failed(w2, thread_id, o)
             ELSE chat_extract(w2, thread_id, o)

\* chat from "Create and process agent run" on.
chat_run(w, thread_id, o) ==
  LET w1 == [w EXCEPT !.log = Append(@, RunRequest(thread_id, w.agent_id, o))]
  IN IF ~o.runOk THEN chat_except(w1, thread_id)
     ELSE LET w2 == [w1 EXCEPT !.threads[thread_id] = WriteAll(@, "assistant", o.writes),
                               !.span = @ \o << <<"run_status", o.status>> >>]
          IN IF o.status = "failed"
             THEN chat_run_failed(w2, thread_id, o)
             ELSE chat_extract(w2, thread_id, o)

\* chat from "Add user message to thread" on.
chat_message(w, message, thread_id, o) ==
  LET w1 == [w EXCEPT !.span = @ \o << <<"thread_id", thread_id>> >>,
                      !.log = Append(@, Request("messages.create", thread_id, o.messageOk))]
  IN IF ~o.messageOk THEN chat_except(w1, thread_id)
     ELSE chat_run([w1 EXCEPT !.threads[thread_id] =
                                  WriteAll(@, "user", << [text_messages |-> <<message>>,
                                                          url_citation_annotations |-> << >>] >>)],
                   thread_id, o)

\* chat's try block opening a new thread whether or not thread_id is given.
chat_thread_always_new(w, message, thread_id, o) ==
  LET w1 == [w EXCEPT !.log = Append(@, Request("threads.create", None, o.threadOk))]
  IN IF ~o.threadOk
     THEN chat_except(w1, thread_id)
     ELSE chat_message([w1 EXCEPT !.threads = Append(@, << >>)],
                       message, Len(w.threads) + 1, o)

\* chat's try block without the assignment thread_id = thread.id.
chat_thread_drops_new_id(w, message, thread_id, o) ==
  IF thread_id # None
  THEN LET ok == o.threadOk /\ thread_id \in DOMAIN w.threads
           w1 == [w EXCEPT !.log = Append(@, Request("threads.get", thread_id, ok))]
       IN IF ~ok
          THEN chat_except(w1, thread_id)
          ELSE chat_message(w1, message, thread_id, o)
  ELSE LET w1 == [w EXCEPT !.log = Append(@, Request("threads.create", None, o.threadOk))]
       IN IF ~o.threadOk
          THEN chat_except(w1, thread_id)
          ELSE chat_except([w1 EXCEPT !.threads = Append(@, << >>),
                                      !.log = Append(@, Request("messages.create", thread_id, FALSE))],
                           thread_id)

\* chat's try block opening a replacement thread when the fetch of the given
\* thread fails.
chat_thread_replaces_bad_id(w, message, thread_id, o) ==
  IF thread_id # None /\ o.threadOk /\ thread_id \in DOMAIN w.threads
  THEN chat_message([w EXCEPT !.log = Append(@, Request("threads.get", thread_id, TRUE))],
                    message, thread_id, o)
  ELSE LET w1 == [w EXCEPT !.log = @ \o
                     (IF thread_id # None
                      THEN << Request("threads.get", thread_id, FALSE) >> ELSE << >>)
                     \o << Request("threads.create", None, TRUE) >>]
       IN chat_message([w1 EXCEPT !.threads = Append(@, << >>)],
                       message, Len(w.threads) + 1, o)

\* chat's try block, from "Create or use existing thread" on.
chat_thread(w, message, thread_id, o) ==
  IF thread_id # None
  THEN LET ok == o.threadOk /\ thread_id \in DOMAIN w.threads
           w1 == [w EXCEPT !.log = Append(@, Request("threads.get", thread_id, ok))]
       IN IF ~ok
          THEN chat_except(w1, thread_id)
          ELSE chat_message(w1, message, thread_id, o)
  ELSE LET w1 == [w EXCEPT !.log = Append(@, Request("threads.create", None, o.threadOk))]
       IN IF ~o.threadOk
          THEN chat_except(w1, thread_id)
          ELSE chat_message([w1 EXCEPT !.threads = Append(@, << >>)],
                            message, Len(w.threads) + 1, o)

\* chat initializing on every call, without the `if not self._initialized`.
chat_always_initializes(w, message, thread_id, o) ==
  LET w0 == initialize(w, NoName, o)
  IN IF w0.raised THEN w0 ELSE chat_thread(w0, message, thread_id, o)

\* UniversalRAGAgent.chat
chat(w, message, thread_id, o) ==
  LET w0 == IF ~w.initialized THEN initialize(w, NoName, o) ELSE w
  IN IF w0.raised THEN w0 ELSE chat_thread(w0, message, thread_id, o)

\* ---- UniversalRAGAgent.get_thread_history ----------------------------------

\* One history record per message, in the order of the list.
RECURSIVE history_of(_)
history_of(messages) ==
  IF messages = << >> THEN << >>
  ELSE << [role      |-> Head(messages).role,
           content   |-> IF Head(messages).text_messages # << >>
                         THEN Head(Head(messages).text_messages)
                         ELSE << >>,
           timestamp |-> Head(messages).created_at] >> \o history_of(Tail(messages))

\* get_thread_history returning the history in the provider's order, without
\* the final reversed().
get_thread_history_newest_first(w, thread_id, o) ==
  LET w0 == IF ~w.initialized THEN initialize(w, NoName, o) ELSE w
  IN IF w0.raised THEN w0
     ELSE LET ok == o.listOk /\ thread_id \in DOMAIN w0.threads
              w1 == [w0 EXCEPT !.log = Append(@, Request("messages.list", thread_id, ok))]
          IN IF ~ok
             THEN [w1 EXCEPT !.value = << >>]
             ELSE [w1 EXCEPT !.value = history_of(messages_list(w1, thread_id))]

\* UniversalRAGAgent.get_thread_history
get_thread_history(w, thread_id, o) ==
  LET w0 == IF ~w.initialized THEN initialize(w, NoName, o) ELSE w
  IN IF w0.raised THEN w0
     ELSE LET ok == o.listOk /\ thread_id \in DOMAIN w0.threads
              w1 == [w0 EXCEPT !.log = Append(@, Request("messages.list", thread_id, ok))]
          IN IF ~ok
             THEN [w1 EXCEPT !.value = << >>]
             ELSE [w1 EXCEPT !.value = Reverse(history_of(messages_list(w1, thread_id)))]

\* ---- UniversalRAGAgent.available_models ------------------------------------

RECURSIVE models_of(_)
models_of(deployments) ==
  IF deployments = << >> THEN << >>
  ELSE << [name           |-> Head(deployments).name,
           modelPublisher |-> Head(deployments).modelPublisher,
           modelName      |-> Head(deployments).modelName,
           modelVersion   |-> Head(deployments).modelVersion] >>
       \o models_of(Tail(deployments))

available_models(w, o) ==
  LET w0 == IF ~w.initialized THEN initialize(w, NoName, o) ELSE w
  IN IF w0.raised THEN w0
     ELSE LET w1 == [w0 EXCEPT !.log = Append(@, Request("deployments.list", None, o.catalogOk))]
          IN IF ~o.catalogOk
             THEN [w1 EXCEPT !.value = << >>]
             ELSE [w1 EXCEPT !.value = models_of(Deployments)]

\* ---- UniversalRAGAgent.shutdown --------------------------------------------

shutdown(w, o) ==
  LET w1 == delete_agent(w, o)
      w2 == [w1 EXCEPT !.log = Append(@, Request("close", None, o.closeOk))]
  IN IF ~o.closeOk THEN w2 ELSE [w2 EXCEPT !.initialized = FALSE]

\* ---- the calls -------------------------------------------------------------

\* UniversalRAGAgent.__init__, and main.py before any session has started.
Init ==
  /\ agent_id = None
  /\ initialized = FALSE
  /\ selected_model = NoName
  /\ agents = << >>
  /\ threads = << >>
  /\ session = [s \in Sessions |-> None]
  /\ started = {}
  /\ log = << >>
  /\ ret = [op |-> "__init__", session |-> None, args |-> << >>, raised |-> FALSE,
            value |-> None, span |-> << >>]
  /\ pre = [agent_id |-> None, initialized |-> FALSE, agents |-> << >>, threads |-> << >>,
            session |-> [s \in Sessions |-> None]]
  /\ calls = 0

\* The state when a call begins.
Snapshot ==
  [agent_id |-> agent_id, initialized |-> initialized, agents |-> agents, threads |-> threads,
   session |-> session]

\* The state a call leaves behind, and what it returned or raised.  s is the
\* session whose handler made the call, None for a direct call.
Return(w, op, s, args) ==
  /\ agent_id' = w.agent_id
  /\ initialized' = w.initialized
  /\ selected_model' = w.selected_model
  /\ agents' = w.agents
  /\ threads' = w.threads
  /\ log' = w.log
  /\ ret' = [op |-> op, session |-> s, args |-> args, raised |-> w.raised,
             value |-> w.value, span |-> w.span]
  /\ pre' = Snapshot
  /\ calls' = calls + 1

\* Outcomes of the provider calls initialize makes.
InitializeOutcomes(base, model_name) ==
  { [base EXCEPT !.catalogOk = c, !.deleteOk = d, !.createOk = k] :
      c \in (IF model_name = NoName THEN {TRUE} ELSE BOOLEAN),
      d \in (IF agent_id = None THEN {TRUE} ELSE BOOLEAN),
      k \in BOOLEAN }

\* Outcomes of the lazy initialization at the head of a method.
LazyOutcomes ==
  IF initialized THEN {AllOk} ELSE InitializeOutcomes(AllOk, NoName)

\* Outcomes of the provider calls of chat's pipeline: the first call that
\* raises, or the run's terminal status and what the run wrote: a failed or
\* expired run wrote nothing, a cancelled run wrote nothing or a plain reply.
ChatOutcomes(base) ==
  { [base EXCEPT !.threadOk = FALSE],
    [base EXCEPT !.messageOk = FALSE],
    [base EXCEPT !.runOk = FALSE] }
  \cup { [base EXCEPT !.status = "failed", !.last_error = e, !.writes = << >>] :
           e \in LastErrors }
  \cup { [base EXCEPT !.status = "completed", !.writes = ws, !.listOk = l] :
           ws \in RunWrites, l \in BOOLEAN }
  \cup { [base EXCEPT !.status = "cancelled", !.writes = ws, !.listOk = l] :
           ws \in {<< >>, AllOk.writes}, l \in BOOLEAN }
  \cup { [base EXCEPT !.status = st, !.writes = << >>, !.listOk = l] :
           st \in RunStatuses \ {"completed", "failed", "cancelled"}, l \in BOOLEAN }

\* A direct call of agent.initialize(model_name).
Initialize(model_name) ==
  /\ calls < MaxCalls
  /\ \E o \in InitializeOutcomes(AllOk, model_name) :
        Return(initialize(World, model_name, o), "initialize", None, <<model_name>>)
  /\ UNCHANGED <<session, started>>

\* main.py on_chat_start: a session begins.
OnChatStart(s) ==
  /\ calls < MaxCalls
  /\ s \notin started
  /\ \E o \in InitializeOutcomes(AllOk, NoName) :
        Return(initialize(World, NoName, o), "initialize", s, <<NoName>>)
  /\ started' = started \cup {s}
  /\ UNCHANGED session

\* A direct call of agent.chat(message, thread_id), as test_agent.py makes.
Chat(message, thread_id) ==
  /\ calls < MaxCalls
  /\ \E b \in LazyOutcomes : \E o \in ChatOutcomes(b) :
        Return(chat(World, message, thread_id, o), "chat", None, <<message, thread_id>>)
  /\ UNCHANGED <<session, started>>

\* main.py main (on_message): one message of a started session.
OnMessage(s, message) ==
  /\ calls < MaxCalls
  /\ s \in started
  /\ \E b \in LazyOutcomes : \E o \in ChatOutcomes(b) :
        LET w == chat(World, message, session[s], o)
        IN /\ Return(w, "chat", s, <<message, session[s]>>)
           /\ session' = IF w.raised THEN session
                         ELSE [session EXCEPT ![s] = w.value.thread_id]
  /\ UNCHANGED started

\* A direct call of agent.get_thread_history(thread_id).
GetThreadHistory(thread_id) ==
  /\ calls < MaxCalls
  /\ \E b \in LazyOutcomes : \E l \in BOOLEAN :
        Return(get_thread_history(World, thread_id, [b EXCEPT !.listOk = l]),
               "get_thread_history", None, <<thread_id>>)
  /\ UNCHANGED <<session, started>>

\* A direct call of agent.available_models().
AvailableModels ==
  /\ calls < MaxCalls
  /\ \E b \in LazyOutcomes : \E c \in BOOLEAN :
        Return(available_models(World, [b EXCEPT !.catalogOk = c]),
               "available_models", None, << >>)
  /\ UNCHANGED <<session, started>>

\* A direct call of agent.shutdown().
Shutdown ==
  /\ calls < MaxCalls
  /\ \E d \in (IF agent_id = None THEN {TRUE} ELSE BOOLEAN) : \E c \in BOOLEAN :
        Return(shutdown(World, [AllOk EXCEPT !.deleteOk = d, !.closeOk = c]),
               "shutdown", None, << >>)
  /\ UNCHANGED <<session, started>>

\* Thread ids a caller can hold: none, or the id of a thread created so far.
ThreadIds == {None} \cup DOMAIN threads

Next ==
  \/ \E m \in ModelNames : Initialize(m)
  \/ \E s \in Sessions : OnChatStart(s)
  \/ \E t \in UserTexts : \E id \in ThreadIds : Chat(t, id)
  \/ \E s \in Sessions : \E t \in UserTexts : OnMessage(s, t)
  \/ \E id \in DOMAIN threads : GetThreadHistory(id)
  \/ AvailableModels
  \/ Shutdown

Spec == Init /\ [][Next]_vars

\* ---- properties ------------------------------------------------------------

\* Positions in the last call's log of the requests named call.
At(call) == {i \in DOMAIN log : log[i].call = call}

\* The last call issued some request named call that raised.
Failed(call) == \E i \in At(call) : ~log[i].ok

\* The last call was chat and returned a result.
ChatReturned == ret.op = "chat" /\ ~ret.raised

\* The last call's run came back with terminal status "failed".
RunFailed == \E i \in At("runs.create_and_process") : log[i].ok /\ log[i].status = "failed"

\* The string s holds the fragment f.
Holds(s, f) == \E i \in DOMAIN s : s[i] = f

\* The thread the last chat call resolved: the one passed in, else the one
\* the provider created during the call.
ResolvedThread ==
  IF ret.args[2] # None THEN ret.args[2] ELSE Len(pre.threads) + 1

\* C1: chat never raises to its caller: whatever provider call fails during
\* the call, the lazy agent creation included, it returns a result whose
\* status is success or error.
C1_ChatNeverRaises ==
  ret.op = "chat" =>
    /\ ~ret.raised
    /\ ret.value.status \in {"success", "error"}

\* C2: when the run started by chat ends with terminal status failed, chat
\* returns status error, the fixed non-empty apology, which holds no part of
\* the run's last_error, and the thread id passed in or created for this
\* call; it raises nothing and lists no messages.
C2_RunFailedDegrades ==
  (ret.op = "chat" /\ RunFailed) =>
    /\ ~ret.raised
    /\ ret.value.status = "error"
    /\ ret.value.response = ApologyRunFailed
    /\ ret.value.response # << >>
    /\ \A i \in At("runs.create_and_process") : \A k \in DOMAIN log[i].last_error :
          ~Holds(ret.value.response, log[i].last_error[k])
    /\ ret.value.thread_id = ResolvedThread
    /\ ResolvedThread \in DOMAIN threads
    /\ ret.args[2] = None => ResolvedThread \notin DOMAIN pre.threads
    /\ At("messages.list") = {}

\* C2 witness: a chat call on a fresh thread whose run failed with an error.
C2_Witness ==
  /\ ret.op = "chat" /\ RunFailed /\ ret.args[2] = None
  /\ \E i \in At("runs.create_and_process") : log[i].last_error = <<"server_error">>

\* C3: every result chat returns carries thread_id, response, citations and
\* status, with status success or error.
C3_ResultHasFourFields ==
  ChatReturned =>
    /\ DOMAIN ret.value = {"thread_id", "response", "citations", "status"}
    /\ ret.value.status \in {"success", "error"}

\* The texts of the user messages of a thread, oldest first.
RECURSIVE UserContents(_)
UserContents(thread) ==
  IF thread = << >> THEN << >>
  ELSE (IF Head(thread).role = "user" THEN << Head(Head(thread).text_messages) >> ELSE << >>)
       \o UserContents(Tail(thread))

IsPrefix(a, b) == Len(a) <= Len(b) /\ SubSeq(b, 1, Len(a)) = a

\* The last call was a chat call that continued the thread it was given.
ChatContinued == ChatReturned /\ ret.args[2] # None

\* The last call's request named call was issued once and returned.
Succeeded(call) == At(call) # {} /\ \A i \in At(call) : log[i].ok

\* C4 as stated: every chat call made with a thread id T returned earlier
\* appends its user message to thread T and returns T.
C4_EveryContinuationAppends ==
  ChatContinued =>
    /\ ret.value.thread_id = ret.args[2]
    /\ UserContents(threads[ret.args[2]])
         = Append(UserContents(pre.threads[ret.args[2]]), ret.args[1])

\* C4 amended: a chat call made with a thread id T returned earlier returns
\* T, opens no thread and leaves every other thread as it was; when its
\* thread fetch and its message append succeed its user message is appended
\* to T after the messages of the prior turns, else T is left as it was.  No
\* call removes or reorders the messages of a thread.  The UI handler passes
\* the session's stored thread id and stores the returned one.
C4_ThreadContinuity ==
  /\ ChatContinued =>
       /\ ret.value.thread_id = ret.args[2]
       /\ Len(threads) = Len(pre.threads)
       /\ \A t \in DOMAIN threads : t # ret.args[2] => threads[t] = pre.threads[t]
       /\ IF Succeeded("messages.create")
          THEN UserContents(threads[ret.args[2]])
                 = Append(UserContents(pre.threads[ret.args[2]]), ret.args[1])
          ELSE threads[ret.args[2]] = pre.threads[ret.args[2]]
  /\ \A t \in DOMAIN pre.threads :
       t \in DOMAIN threads /\ IsPrefix(pre.threads[t], threads[t])
  /\ (ret.op = "chat" /\ ret.session # None) =>
       /\ ret.args[2] = pre.session[ret.session]
       /\ session[ret.session] = IF ret.raised THEN pre.session[ret.session]
                                  ELSE ret.value.thread_id

\* C4 witness: the second message of a session is answered on the thread of
\* the first, which now holds both user messages in call order.
C4_Witness ==
  /\ ChatContinued /\ ret.session # None
  /\ ret.value.status = "success"
  /\ UserContents(threads[ret.args[2]]) = << <<"Bonjour !">>, <<"Linkin Park">> >>
  /\ session[ret.session] = ret.args[2]

\* The last call was a chat call made without a thread id.
ChatFresh == ChatReturned /\ ret.args[2] = None

\* C5 as stated: every chat call made without a thread id creates a new
\* remote thread and returns its id, which no earlier thread has, and
\* leaves the earlier threads as they were.
C5_EveryOmissionCreates ==
  ChatFresh =>
    /\ Len(threads) = Len(pre.threads) + 1
    /\ ret.value.thread_id = Len(threads)
    /\ ret.value.thread_id \notin DOMAIN pre.threads
    /\ \A t \in DOMAIN pre.threads : threads[t] = pre.threads[t]

\* C5 amended: every chat call made without a thread id requests one new
\* remote thread and fetches none; when the creation succeeds it returns
\* the new thread's id, which no earlier thread has, and when it fails it
\* returns no thread id; in both cases the earlier threads are left as they were.
C5_FreshThreadOnOmission ==
  ChatFresh =>
    /\ Cardinality(At("threads.create")) = 1
    /\ At("threads.get") = {}
    /\ \A t \in DOMAIN pre.threads : threads[t] = pre.threads[t]
    /\ IF Succeeded("threads.create")
       THEN /\ Len(threads) = Len(pre.threads) + 1
            /\ ret.value.thread_id = Len(threads)
            /\ ret.value.thread_id \notin DOMAIN pre.threads
       ELSE /\ threads = pre.threads
            /\ ret.value.thread_id = None

\* C5 witness: a chat call without a thread id, made when an earlier thread
\* already holds messages, returns the id of a second thread.
C5_Witness ==
  /\ ChatFresh /\ ret.value.status = "success"
  /\ Len(pre.threads) = 1 /\ pre.threads[1] # << >>
  /\ ret.value.thread_id = 2 /\ threads[2] # << >>

\* The last call was initialize, made while an agent was already held.
Reprovision == ret.op = "initialize" /\ pre.agent_id # None

\* The deployment initialize(model_name) binds the agent to, read off the
\* catalog: "dep-b" is the first deployment of model "gpt-b"; a name that is
\* absent, unknown or could not be looked up falls back to the default.
ExpectedDeployment ==
  IF ret.args[1] = "gpt-b" /\ Succeeded("deployments.list") THEN "dep-b" ELSE "dep-default"

\* The agents the provider holds that have not been deleted.
Live == {i \in DOMAIN agents : agents[i].live}

\* C6: when initialize is called while an agent is held, a delete of that
\* agent is requested before the new agent is created; the creation is
\* requested whether or not the delete succeeded; and when the creation
\* succeeds the held agent_id is the id of the agent just created, bound to
\* the deployment of the model asked for.
C6_ReprovisionByReplacement ==
  Reprovision =>
    /\ \E i \in At("delete_agent") : \E j \in At("create_agent") :
          log[i].arg = pre.agent_id /\ i < j
    /\ Cardinality(At("create_agent")) = 1
    /\ Succeeded("create_agent") =>
          /\ ~ret.raised
          /\ initialized
          /\ Len(agents) = Len(pre.agents) + 1
          /\ agent_id = Len(agents)
          /\ agents[agent_id].live
          /\ agents[agent_id].model = ExpectedDeployment

\* C6 witness: a second initialize, for another model, whose delete of the
\* first agent failed and whose agent was created all the same.
C6_Witness ==
  /\ Reprovision /\ ~ret.raised
  /\ Failed("delete_agent")
  /\ pre.agents[pre.agent_id].model = "dep-default"
  /\ agents[agent_id].model = "dep-b"
  /\ agent_id # pre.agent_id

\* C7 as stated: at most one agent created by the orchestrator is live in
\* any state, and exactly one after a successful provision.
C7_OneLiveAgent ==
  /\ Cardinality(Live) <= 1
  /\ Succeeded("create_agent") => Cardinality(Live) = 1

\* C7 amended: after every successful provision the orchestrator holds
\* exactly one agent, the one just created, which is live and has no delete
\* request; in every state every other agent it created has been requested
\* for deletion, so at most one created agent has no delete request (an
\* agent whose delete request failed may stay live beside the held one).
C7_OneHeldAgent ==
  /\ agent_id \in {None} \cup DOMAIN agents
  /\ \A i \in DOMAIN agents : i # agent_id => agents[i].deletes >= 1
  /\ Cardinality({i \in DOMAIN agents : agents[i].deletes = 0}) <= 1
  /\ Succeeded("create_agent") =>
       /\ agent_id = Len(agents)
       /\ agents[agent_id].live
       /\ agents[agent_id].deletes = 0

\* C7 witness: a successful provision whose delete of the previous agent
\* failed: the held agent and the previous one are both live.
C7_Witness ==
  /\ Succeeded("create_agent") /\ Failed("delete_agent")
  /\ Live = {pre.agent_id, agent_id}
  /\ pre.agent_id # agent_id

\* The methods that initialize lazily.
LazyOps == {"chat", "get_thread_history", "available_models"}

\* The requests of a method that come after its lazy initialization.
Pipeline ==
  {"threads.get", "threads.create", "messages.create", "runs.create_and_process",
   "messages.list", "deployments.list"}

\* C8: chat, get_thread_history and available_models initialize exactly when
\* the orchestrator is not marked initialized: then one agent is requested,
\* for the configured default deployment, before any thread, message, run or
\* listing request; when it is marked initialized they request no agent
\* creation and no agent deletion and leave agent_id and the flag unchanged.
C8_LazyInitialization ==
  ret.op \in LazyOps =>
    IF pre.initialized
    THEN /\ At("create_agent") = {}
         /\ At("delete_agent") = {}
         /\ agent_id = pre.agent_id
         /\ initialized = pre.initialized
         /\ agents = pre.agents
    ELSE /\ Cardinality(At("create_agent")) = 1
         /\ \A i \in At("create_agent") :
              /\ log[i].arg = model_deployment_name
              /\ \A j \in DOMAIN log : log[j].call \in Pipeline => i < j
         /\ Succeeded("create_agent") =>
              /\ initialized
              /\ agents[agent_id].model = model_deployment_name
              /\ \E j \in DOMAIN log : log[j].call \in Pipeline
         /\ Failed("create_agent") => \A j \in DOMAIN log : log[j].call \notin Pipeline

\* C8 witness: a chat call on an orchestrator not marked initialized that
\* initialized it and went on to a successful exchange.
C8_Witness ==
  /\ ret.op = "chat" /\ ~pre.initialized /\ ~ret.raised
  /\ ret.value.status = "success"
  /\ initialized /\ agent_id # None

\* C9: available_models and get_thread_history never raise, and return an
\* empty sequence whenever a provider call made during the operation failed.
C9_SoftListNeverRaises ==
  ret.op \in {"available_models", "get_thread_history"} =>
    /\ ~ret.raised
    /\ (\E i \in DOMAIN log : ~log[i].ok) => ret.value = << >>

\* C10: after shutdown the orchestrator holds no agent and shutdown has not
\* raised; a shutdown that follows a delete request for the held agent
\* issues none; every created agent is requested for deletion at most once.
C10_TeardownIdempotent ==
  /\ ret.op = "shutdown" => (~ret.raised /\ agent_id = None)
  /\ (ret.op = "shutdown" /\ pre.agent_id # None /\ pre.agents[pre.agent_id].deletes >= 1)
       => At("delete_agent") = {}
  /\ \A i \in DOMAIN agents : agents[i].deletes <= 1

\* The last call was get_thread_history and the provider returned its list.
HistoryListed == ret.op = "get_thread_history" /\ Succeeded("messages.list")

\* C11: get_thread_history returns one record per message of the thread, of
\* both roles, oldest first (the reverse of the provider's newest-first
\* list); each record holds the message's role, its first text segment, or
\* the empty string if it has none, and its creation time.
C11_HistoryChronological ==
  HistoryListed =>
    /\ ~ret.raised
    /\ Len(ret.value) = Len(threads[ret.args[1]])
    /\ \A i \in DOMAIN ret.value :
         LET m == threads[ret.args[1]][i]
         IN /\ ret.value[i].role = m.role
            /\ ret.value[i].timestamp = m.created_at
            /\ ret.value[i].content =
                 IF Len(m.text_messages) = 0 THEN << >> ELSE m.text_messages[1]
    /\ \A i \in DOMAIN ret.value : \A j \in DOMAIN ret.value :
         i < j => ret.value[i].timestamp < ret.value[j].timestamp

\* C11 witness: the history of a thread of one user message and one
\* assistant reply of two text segments is [user, assistant].
C11_Witness ==
  /\ HistoryListed
  /\ Len(ret.value) = 2
  /\ ret.value[1].role = "user" /\ ret.value[1].content = <<"Bonjour !">>
  /\ ret.value[2].role = "assistant" /\ ret.value[2].content = <<"B">>

\* The last call was a chat call that returned status success.
ChatSucceeded == ChatReturned /\ ret.value.status = "success"

\* The thread the last chat call worked on, as it is after the call.
ThreadNow == threads[ResolvedThread]

\* The newest message of a thread among those at the positions S.
Newest(S) == CHOOSE i \in S : \A j \in S : j <= i

\* Positions of the assistant messages of a thread, and of those with text.
AssistantAt(thread) == {i \in DOMAIN thread : thread[i].role = "assistant"}
AssistantTextAt(thread) ==
  {i \in AssistantAt(thread) : thread[i].text_messages # << >>}

\* C12 as stated: the response is the first text segment of the newest
\* assistant message that has a text segment, and is empty only if the
\* list holds no assistant message with a text segment.
C12_NewestNonEmptyAssistantText ==
  ChatSucceeded =>
    ret.value.response =
      IF AssistantTextAt(ThreadNow) = {} THEN << >>
      ELSE ThreadNow[Newest(AssistantTextAt(ThreadNow))].text_messages[1]

\* C12 amended: the response is the first text segment of the newest
\* assistant message of the thread (the first one met in the provider's
\* newest-first list); it is the empty string when that message has no text
\* segment, even if an older assistant message has one, or when the thread
\* holds no assistant message.
C12_NewestAssistantText ==
  ChatSucceeded =>
    ret.value.response =
      IF AssistantAt(ThreadNow) = {} THEN << >>
      ELSE IF ThreadNow[Newest(AssistantAt(ThreadNow))].text_messages = << >> THEN << >>
      ELSE ThreadNow[Newest(AssistantAt(ThreadNow))].text_messages[1]

\* C12 witness: the list is [M2 (text B), user, M1 (text A), user] and the
\* response is B.
C12_Witness ==
  /\ ChatSucceeded /\ ret.args[2] # None
  /\ Cardinality(AssistantAt(ThreadNow)) = 2
  /\ \E i \in AssistantAt(ThreadNow) : ThreadNow[i].text_messages = << <<"A">> >>
  /\ ThreadNow[Newest(AssistantAt(ThreadNow))].text_messages = << <<"B">>, <<"C">> >>
  /\ ret.value.response = <<"B">>

\* The (title, url) pairs of the annotations of the assistant messages
\* among the n oldest messages of a thread, newest message first.
RECURSIVE CitationsUpTo(_, _)
CitationsUpTo(thread, n) ==
  IF n = 0 THEN << >>
  ELSE (IF thread[n].role = "assistant"
        THEN [k \in DOMAIN thread[n].url_citation_annotations |->
                [title |-> thread[n].url_citation_annotations[k].url_citation.title,
                 url   |-> thread[n].url_citation_annotations[k].url_citation.url]]
        ELSE << >>) \o CitationsUpTo(thread, n - 1)

\* The number of annotations the assistant messages of a thread carry.
RECURSIVE AnnotationCount(_)
AnnotationCount(thread) ==
  IF thread = << >> THEN 0
  ELSE (IF Head(thread).role = "assistant"
        THEN Len(Head(thread).url_citation_annotations) ELSE 0)
       + AnnotationCount(Tail(thread))

PipelineFailed == \E i \in DOMAIN log : log[i].call \in Pipeline /\ ~log[i].ok

\* C14: when chat is given a thread id that the provider rejects, it creates
\* no replacement thread, appends no user message, starts no run, and
\* returns a degraded result with status error and the generic apology.
C14_BadThreadIdNotReplaced ==
  (ret.op = "chat" /\ Failed("threads.get")) =>
    /\ ~ret.raised
    /\ ret.value.status = "error"
    /\ ret.value.response = ApologyException
    /\ threads = pre.threads
    /\ At("threads.create") = {}
    /\ At("messages.create") = {}
    /\ At("runs.create_and_process") = {}

\* C14 witness: a chat call on a thread that holds a conversation, whose
\* fetch the provider rejected.
C14_Witness ==
  /\ ret.op = "chat" /\ Failed("threads.get")
  /\ Len(threads[ret.args[2]]) >= 2
  /\ ret.value.status = "error"

\* The last chat call returned from its except branch.
ChatCaught == ChatReturned /\ PipelineFailed

\* C15 as stated: the degraded result of an exception carries the id of the
\* thread that had been fetched or created before the exception, and no
\* thread id if none had been, in particular when the fetch of the given
\* thread is what failed.
C15_ThreadIdOnlyIfResolved ==
  ChatCaught =>
    ret.value.thread_id =
      IF Succeeded("threads.get") \/ Succeeded("threads.create")
      THEN ResolvedThread ELSE None

\* C15 amended: the degraded result of an exception carries the thread id
\* the caller passed in whenever one was passed, also when fetching it is
\* the step that failed; with none passed, it carries the id of the thread
\* created before the exception, and no thread id when the creation is the
\* step that failed.  The UI handler stores that value in the session.
C15_ThreadIdOnException ==
  ChatCaught =>
    /\ ret.value.status = "error"
    /\ ret.value.thread_id =
         IF ret.args[2] # None THEN ret.args[2]
         ELSE IF Succeeded("threads.create") THEN Len(pre.threads) + 1
         ELSE None
    /\ ret.value.thread_id # None => ret.value.thread_id \in DOMAIN threads
    /\ ret.session # None => session[ret.session] = ret.value.thread_id

\* C15 witness: the provider rejects the fetch of the session's thread; the
\* degraded result, and the session after it, still carry that thread id.
C15_Witness ==
  /\ ChatCaught /\ Failed("threads.get")
  /\ ret.session # None
  /\ ret.value.thread_id = ret.args[2]
  /\ session[ret.session] = ret.args[2]

\* The requests of chat's own pipeline, in the order the last call issued them.
IsExchangeRequest(r) ==
  r.call \in {"threads.get", "threads.create", "messages.create",
              "runs.create_and_process", "messages.list"}
Exchange == SelectSeq(log, IsExchangeRequest)

\* C16: within one chat call the remote operations occur in the order
\* resolve-or-create thread, append user message, run to a terminal status,
\* list messages, each one only after the one before it returned and all on
\* the resolved thread; at most one user message is appended and at most
\* one run is started, never before the user message is appended, and a
\* failed run is followed by no other request.
C16_ExchangeOrder ==
  ret.op = "chat" =>
    /\ Len(Exchange) <= 4
    /\ ~ret.raised => Len(Exchange) >= 1
    /\ Len(Exchange) >= 1 =>
         Exchange[1].call = (IF ret.args[2] # None THEN "threads.get" ELSE "threads.create")
    /\ Len(Exchange) >= 2 =>
         /\ Exchange[2].call = "messages.create"
         /\ Exchange[2].arg = ResolvedThread
    /\ Len(Exchange) >= 3 =>
         /\ Exchange[3].call = "runs.create_and_process"
         /\ Exchange[3].arg = <<ResolvedThread, agent_id>>
    /\ Len(Exchange) >= 4 =>
         /\ Exchange[4].call = "messages.list"
         /\ Exchange[4].arg = ResolvedThread
         /\ Exchange[3].status # "failed"
    /\ \A k \in 2..Len(Exchange) : Exchange[k - 1].ok
    /\ Cardinality(At("messages.create")) <= 1
    /\ Cardinality(At("runs.create_and_process")) <= 1
    /\ \A t \in DOMAIN pre.threads :
         Len(UserContents(threads[t])) <=
           Len(UserContents(pre.threads[t])) + Cardinality(At("messages.create"))

\* C16 witness: a chat call that went through all four steps after a run
\* that did not complete.
C16_Witness ==
  /\ ret.op = "chat" /\ Len(Exchange) = 4
  /\ Exchange[1].call = "threads.get"
  /\ Exchange[3].status = "cancelled"
  /\ Exchange[4].ok

\* The last call's run came back with a terminal status other than failed.
RunNotFailed ==
  \E i \in At("runs.create_and_process") : log[i].ok /\ log[i].status # "failed"

\* The text the extractor takes from a thread: the first text segment of
\* its newest assistant message, if there is one and it has one.
NewestAssistantText(thread) ==
  IF AssistantAt(thread) = {} THEN << >>
  ELSE IF thread[Newest(AssistantAt(thread))].text_messages = << >> THEN << >>
  ELSE thread[Newest(AssistantAt(thread))].text_messages[1]

\* C17: chat returns status error exactly when the run's terminal status is
\* failed or a provider call of the pipeline raised; after a run with any
\* other terminal status it lists the messages and, the listing returned,
\* returns status success with the extracted text and citations.
C17_StatusClassification ==
  ChatReturned =>
    /\ ret.value.status = "error" <=> (RunFailed \/ PipelineFailed)
    /\ ret.value.status = "success" <=> (RunNotFailed /\ Succeeded("messages.list"))
    /\ RunNotFailed =>
         /\ At("messages.list") # {}
         /\ Succeeded("messages.list") =>
              /\ ret.value.response = NewestAssistantText(ThreadNow)
              /\ ret.value.citations = CitationsUpTo(ThreadNow, Len(ThreadNow))

\* C17 witness: a run on a continued thread that ended expired; chat lists
\* the messages and returns success.
C17_Witness ==
  /\ ChatReturned /\ ret.args[2] # None
  /\ \E i \in At("runs.create_and_process") : log[i].status = "expired"
  /\ Succeeded("messages.list")
  /\ ret.value.status = "success"

\* C18: a failed agent creation makes initialize raise, and whenever the
\* orchestrator is marked initialized its agent_id names an agent that was
\* created and has not been requested for deletion, so that no run is
\* submitted with the id of an agent requested for deletion.
C18_NoDanglingAgent ==
  /\ (ret.op = "initialize" /\ Failed("create_agent")) => ret.raised
  /\ initialized =>
       /\ agent_id \in DOMAIN agents
       /\ agents[agent_id].deletes = 0
  /\ \A i \in At("runs.create_and_process") :
       /\ log[i].arg[2] \in DOMAIN agents
       /\ agents[log[i].arg[2]].deletes = 0

\* The messages the last chat call's run wrote to the thread.
WrittenByRun ==
  {i \in DOMAIN ThreadNow :
     /\ ThreadNow[i].role = "assistant"
     /\ ret.args[2] # None => i > Len(pre.threads[ret.args[2]])}

\* C19: a non-empty response returned with status success is a text segment
\* of an assistant message that the run of this same call wrote, never of
\* an assistant message of an earlier turn.
C19_ReplyIsFresh ==
  (ChatSucceeded /\ ret.value.response # << >>) =>
    \E i \in WrittenByRun : \E k \in DOMAIN ThreadNow[i].text_messages :
      ThreadNow[i].text_messages[k] = ret.value.response

\* The interleavings of the UI handlers alone: every session's on_chat_start
\* and on_message, in any order, each handler running to its return.
NextUI ==
  \/ \E s \in Sessions : OnChatStart(s)
  \/ \E s \in Sessions : \E message \in UserTexts : OnMessage(s, message)

SpecUI == Init /\ [][NextUI]_vars

\* C20: under the UI handlers of all sessions, an exchange that starts on an
\* initialized orchestrator returns with the agent_id it started with, no
\* run is submitted with the id of an agent already requested for deletion,
\* and every agent other than the current one has been requested for
\* deletion.
C20_AgentIdStableInFlight ==
  /\ (ret.op = "chat" /\ pre.initialized) => agent_id = pre.agent_id
  /\ \A i \in At("runs.create_and_process") :
       /\ log[i].arg[2] \in DOMAIN agents
       /\ agents[log[i].arg[2]].deletes = 0
  /\ \A a \in DOMAIN agents : a # agent_id => agents[a].deletes >= 1

====
